---- MODULE Spec2Model ----
(***************************************************************************)
(* A model of globe_explorer.py: the Globe Explorer streaming client.      *)
(*                                                                         *)
(* Text is modelled as TLA+ strings handled character by character         *)
(* (Len, SubSeq, \o), so that str.replace, json.loads and str.upper are    *)
(* computed on the characters of a line as the Python code computes them.  *)
(* A JSON value is a tagged record [k |-> kind, v |-> payload]; a JSON     *)
(* object's payload is a function from its keys (strings) to JSON values.  *)
(***************************************************************************)
EXTENDS Integers, Sequences, FiniteSets, TLC

(***************************************************************************)
(* Bounds of the model.                                                    *)
(***************************************************************************)
\* the number of lines one stream delivers
MaxLines == 3
\* the number of query() calls made in one process
MaxCalls == 2

(***************************************************************************)
(* Characters and strings.                                                 *)
(***************************************************************************)
Ch(s, i) == IF i >= 1 /\ i <= Len(s) THEN SubSeq(s, i, i) ELSE ""

StartsWithAt(s, i, p) ==
  /\ i + Len(p) - 1 <= Len(s)
  /\ SubSeq(s, i, i + Len(p) - 1) = p

\* the transport prefix of a server-sent-event line
DATA_PREFIX == "data: "

RECURSIVE ReplaceFrom(_, _, _, _)
ReplaceFrom(s, i, old, new) ==
  IF i > Len(s) THEN ""
  ELSE IF StartsWithAt(s, i, old)
       THEN new \o ReplaceFrom(s, i + Len(old), old, new)
       ELSE Ch(s, i) \o ReplaceFrom(s, i + 1, old, new)

\* str.replace(old, new) for a non-empty old: every non-overlapping
\* occurrence, scanning from the left
StrReplace(s, old, new) == ReplaceFrom(s, 1, old, new)

\* what a decoder that strips only a leading prefix would be handed
StripLeading(s, p) ==
  IF StartsWithAt(s, 1, p) THEN SubSeq(s, Len(p) + 1, Len(s)) ELSE s

\* line 90: line = line.replace("data: ", "")
StripPrefix(line) == StrReplace(line, DATA_PREFIX, "")

(***************************************************************************)
(* json.loads, on the subset of JSON the modelled lines are written in:    *)
(* objects, arrays, strings (escapes \" \\ \/ only), integers, null, true, *)
(* false, and blanks between tokens.                                       *)
(***************************************************************************)
JNull == [k |-> "null", v |-> 0]
JStr(s) == [k |-> "str", v |-> s]
JNum(n) == [k |-> "num", v |-> n]
JBool(b) == [k |-> "bool", v |-> b]
JArr(items) == [k |-> "arr", v |-> items]
JObj(members) == [k |-> "obj", v |-> members]

\* the empty mapping, as a function with an empty domain
NoMembers == [key \in {} |-> JNull]

ParseFail == [ok |-> FALSE, v |-> JNull, i |-> 0]
ParseOk(val, next) == [ok |-> TRUE, v |-> val, i |-> next]

Digits == {"0", "1", "2", "3", "4", "5", "6", "7", "8", "9"}

DigitVal(c) ==
  CASE c = "0" -> 0 [] c = "1" -> 1 [] c = "2" -> 2 [] c = "3" -> 3
    [] c = "4" -> 4 [] c = "5" -> 5 [] c = "6" -> 6 [] c = "7" -> 7
    [] c = "8" -> 8 [] c = "9" -> 9

RECURSIVE SkipWs(_, _)
SkipWs(s, i) == IF Ch(s, i) = " " THEN SkipWs(s, i + 1) ELSE i

\* scans a string body from position i (after the opening quote) and
\* returns the decoded string and the position after the closing quote
RECURSIVE ScanString(_, _, _)
ScanString(s, i, acc) ==
  IF i > Len(s) THEN ParseFail
  ELSE IF Ch(s, i) = "\"" THEN ParseOk(JStr(acc), i + 1)
  ELSE IF Ch(s, i) = "\\"
       THEN IF Ch(s, i + 1) \in {"\"", "\\", "/"}
            THEN ScanString(s, i + 2, acc \o Ch(s, i + 1))
            ELSE ParseFail
  ELSE ScanString(s, i + 1, acc \o Ch(s, i))

RECURSIVE ScanDigits(_, _, _)
ScanDigits(s, i, acc) ==
  IF Ch(s, i) \in Digits
  THEN ScanDigits(s, i + 1, 10 * acc + DigitVal(Ch(s, i)))
  ELSE ParseOk(JNum(acc), i)

\* an integer: "0", or a non-zero digit followed by digits
ScanNumber(s, i, sign) ==
  IF Ch(s, i) = "0" THEN ParseOk(JNum(0), i + 1)
  ELSE IF Ch(s, i) \in Digits
       THEN LET r == ScanDigits(s, i, 0) IN ParseOk(JNum(sign * r.v.v), r.i)
       ELSE ParseFail

RECURSIVE ParseValue(_, _)
RECURSIVE ParseMembers(_, _, _)
RECURSIVE ParseItems(_, _, _)

\* the members of an object from position i, which is at a key's opening
\* quote; a repeated key keeps its last value
ParseMembers(s, i, acc) ==
  IF Ch(s, i) # "\"" THEN ParseFail
  ELSE LET key == ScanString(s, i + 1, "") IN
    IF ~key.ok THEN ParseFail
    ELSE LET c == SkipWs(s, key.i) IN
      IF Ch(s, c) # ":" THEN ParseFail
      ELSE LET val == ParseValue(s, SkipWs(s, c + 1)) IN
        IF ~val.ok THEN ParseFail
        ELSE LET members == [name \in (DOMAIN acc) \cup {key.v.v} |->
                               IF name = key.v.v THEN val.v ELSE acc[name]]
                 e == SkipWs(s, val.i)
             IN IF Ch(s, e) = "}" THEN ParseOk(JObj(members), e + 1)
                ELSE IF Ch(s, e) = ","
                     THEN ParseMembers(s, SkipWs(s, e + 1), members)
                     ELSE ParseFail

ParseItems(s, i, acc) ==
  LET val == ParseValue(s, i) IN
    IF ~val.ok THEN ParseFail
    ELSE LET items == Append(acc, val.v)
             e == SkipWs(s, val.i)
         IN IF Ch(s, e) = "]" THEN ParseOk(JArr(items), e + 1)
            ELSE IF Ch(s, e) = ","
                 THEN ParseItems(s, SkipWs(s, e + 1), items)
                 ELSE ParseFail

ParseValue(s, i) ==
  LET c == Ch(s, i) IN
    IF c = "\"" THEN ScanString(s, i + 1, "")
    ELSE IF c = "{"
         THEN LET j == SkipWs(s, i + 1) IN
                IF Ch(s, j) = "}" THEN ParseOk(JObj(NoMembers), j + 1)
                ELSE ParseMembers(s, j, NoMembers)
    ELSE IF c = "["
         THEN LET j == SkipWs(s, i + 1) IN
                IF Ch(s, j) = "]" THEN ParseOk(JArr(<<>>), j + 1)
                ELSE ParseItems(s, j, <<>>)
    ELSE IF StartsWithAt(s, i, "null") THEN ParseOk(JNull, i + 4)
    ELSE IF StartsWithAt(s, i, "true") THEN ParseOk(JBool(TRUE), i + 4)
    ELSE IF StartsWithAt(s, i, "false") THEN ParseOk(JBool(FALSE), i + 5)
    ELSE IF c = "-" THEN ScanNumber(s, i + 1, -1)
    ELSE ScanNumber(s, i, 1)

\* json.loads(s): one value, blanks around it, nothing after it;
\* ok = FALSE stands for json.JSONDecodeError
JsonLoads(s) ==
  LET r == ParseValue(s, SkipWs(s, 1)) IN
    IF r.ok /\ SkipWs(s, r.i) = Len(s) + 1 THEN r ELSE ParseFail

(***************************************************************************)
(* Python's str() of a decoded JSON value, as print() writes it, and       *)
(* json.dumps of the request's query data.                                 *)
(***************************************************************************)
DigitStr(d) == SubSeq("0123456789", d + 1, d + 1)

RECURSIVE NatToStr(_)
NatToStr(n) == IF n < 10 THEN DigitStr(n) ELSE NatToStr(n \div 10) \o DigitStr(n % 10)

IntToStr(n) == IF n < 0 THEN "-" \o NatToStr(0 - n) ELSE NatToStr(n)

RECURSIVE PyRepr(_)
RECURSIVE PyReprItems(_, _)
RECURSIVE PyReprMembers(_, _)

PyReprItems(items, i) ==
  IF i > Len(items) THEN ""
  ELSE (IF i > 1 THEN ", " ELSE "") \o PyRepr(items[i]) \o PyReprItems(items, i + 1)

\* the members in some order of the keys (a dict prints them in insertion order)
PyReprMembers(members, keys) ==
  IF keys = {} THEN ""
  ELSE LET key == CHOOSE name \in keys : TRUE IN
         "'" \o key \o "': " \o PyRepr(members[key])
           \o (IF keys = {key} THEN "" ELSE ", ")
           \o PyReprMembers(members, keys \ {key})

PyRepr(val) ==
  CASE val.k = "str" -> "'" \o val.v \o "'"
    [] val.k = "num" -> IntToStr(val.v)
    [] val.k = "null" -> "None"
    [] val.k = "bool" -> (IF val.v THEN "True" ELSE "False")
    [] val.k = "arr" -> "[" \o PyReprItems(val.v, 1) \o "]"
    [] val.k = "obj" -> "{" \o PyReprMembers(val.v, DOMAIN val.v) \o "}"

\* str(content): a string prints as itself, any other value as its repr
PyStr(val) == IF val.k = "str" THEN val.v ELSE PyRepr(val)

RECURSIVE EscapeFrom(_, _)
EscapeFrom(s, i) ==
  IF i > Len(s) THEN ""
  ELSE (IF Ch(s, i) \in {"\"", "\\"} THEN "\\" ELSE "") \o Ch(s, i) \o EscapeFrom(s, i + 1)

RECURSIVE JsonDumps(_)
RECURSIVE DumpPairs(_, _)

\* the (key, value) pairs of a dict, in insertion order
DumpPairs(pairs, i) ==
  IF i > Len(pairs) THEN ""
  ELSE (IF i > 1 THEN ", " ELSE "")
         \o "\"" \o EscapeFrom(pairs[i][1], 1) \o "\": " \o JsonDumps(pairs[i][2])
         \o DumpPairs(pairs, i + 1)

\* json.dumps with the default separators, of a string, an integer, None,
\* or a dict given as its sequence of (key, value) pairs
JsonDumps(val) ==
  CASE val.k = "str" -> "\"" \o EscapeFrom(val.v, 1) \o "\""
    [] val.k = "num" -> IntToStr(val.v)
    [] val.k = "null" -> "null"
    [] val.k = "pairs" -> "{" \o DumpPairs(val.v, 1) \o "}"

(***************************************************************************)
(* ModelType and ModelType.from_string.                                    *)
(***************************************************************************)
LowerLetters == "abcdefghijklmnopqrstuvwxyz"
UpperLetters == "ABCDEFGHIJKLMNOPQRSTUVWXYZ"

UpperCh(c) ==
  IF \E i \in 1..26 : Ch(LowerLetters, i) = c
  THEN LET i == CHOOSE j \in 1..26 : Ch(LowerLetters, j) = c IN Ch(UpperLetters, i)
  ELSE c

LowerCh(c) ==
  IF \E i \in 1..26 : Ch(UpperLetters, i) = c
  THEN LET i == CHOOSE j \in 1..26 : Ch(UpperLetters, j) = c IN Ch(LowerLetters, i)
  ELSE c

RECURSIVE StrUpper(_)
StrUpper(s) == IF s = "" THEN "" ELSE UpperCh(Ch(s, 1)) \o StrUpper(Tail(s))

RECURSIVE StrLower(_)
StrLower(s) == IF s = "" THEN "" ELSE LowerCh(Ch(s, 1)) \o StrLower(Tail(s))

\* the members of the enumeration: name |-> value
ModelType == [DEFAULT |-> "default", TURBO |-> "turbo"]

ModelNames == DOMAIN ModelType

\* a mutation of from_string: an unknown name falls back to DEFAULT
from_string_fallback(model_name) ==
  IF StrUpper(model_name) \in ModelNames
  THEN [ok |-> TRUE, member |-> StrUpper(model_name)]
  ELSE [ok |-> TRUE, member |-> "DEFAULT"]

\* cls[model_name.upper()]; ok = FALSE stands for ModelNotFoundError
from_string(model_name) ==
  IF StrUpper(model_name) \in ModelNames
  THEN [ok |-> TRUE, member |-> StrUpper(model_name)]
  ELSE [ok |-> FALSE, member |-> ""]

(***************************************************************************)
(* SearchQuery, APIResponse and the request parameters.                    *)
(***************************************************************************)
\* a uuid, written from the number of uuids generated before it
UuidStr(n) == "uuid" \o NatToStr(n)

\* SearchQuery.to_dict(), for a query built as SearchQuery(query=query):
\* every other field has its class-level default
to_dict(query, search_id) ==
  [k |-> "pairs",
   v |-> << <<"searchbox_query", JStr(query)>>,
            <<"search_id", JStr(search_id)>>,
            <<"index", JNum(0)>>,
            <<"type", JStr("initial_searchbox")>>,
            <<"clicked_category", JNull>>,
            <<"staged_image", JNull>>,
            <<"location", JNull>> >>]

\* json.dumps([search_query.to_dict()])
QueryData(query, search_id) == "[" \o JsonDumps(to_dict(query, search_id)) \o "]"

\* _build_params(query, model): default_id is the value the dataclass
\* field SearchQuery.search_id was given when the class was defined, n the
\* number of uuids generated so far
build_params(query, member, default_id, n) ==
  [queryData |-> QueryData(query, default_id),
   userid_auth |-> "undefined",
   userid_local |-> "user_" \o UuidStr(n) \o "_g0sdqrryy",
   model |-> ModelType[member],
   search_id |-> UuidStr(n + 1)]

NoParams ==
  [queryData |-> "", userid_auth |-> "", userid_local |-> "", model |-> "",
   search_id |-> ""]

\* APIResponse(): empty text, a new empty images list, no error
NewAPIResponse == [streaming_response |-> "", images |-> <<>>, error |-> "None"]

(***************************************************************************)
(* JSONResponseProcessor.process_line.                                     *)
(***************************************************************************)
TYPE_CHUNK == JStr("top_answer_chunk")
TYPE_IMAGE == JStr("image")

Outcome(raised, cause, response, printed) ==
  [raised |-> raised, cause |-> cause, response |-> response, printed |-> printed]

\* a mutation of Dispatch: an image record without data is read with
\* dict.get and appends None
Dispatch_get(json_value, response, prints) ==
  IF json_value.k # "obj" THEN Outcome("TypeError", "TypeError", response, <<>>)
  ELSE IF "type" \notin DOMAIN json_value.v
       THEN Outcome("ResponseProcessingError", "KeyError", response, <<>>)
  ELSE IF json_value.v["type"] = TYPE_CHUNK
       THEN IF "data" \notin DOMAIN json_value.v
            THEN Outcome("ResponseProcessingError", "KeyError", response, <<>>)
            ELSE LET content == json_value.v["data"]
                     printed == IF prints THEN <<PyStr(content)>> ELSE <<>>
                 IN IF content.k # "str"
                    THEN Outcome("TypeError", "TypeError", response, printed)
                    ELSE Outcome("None", "", 
                           [response EXCEPT !.streaming_response = @ \o content.v],
                           printed)
  ELSE IF json_value.v["type"] = TYPE_IMAGE
       THEN IF "data" \notin DOMAIN json_value.v
            THEN Outcome("None", "", [response EXCEPT !.images = Append(@, JNull)], <<>>)
            ELSE Outcome("None", "",
                   [response EXCEPT !.images = Append(@, json_value.v["data"])],
                   <<>>)
  ELSE Outcome("None", "", response, <<>>)

\* a mutation of Dispatch: the chunk is printed whatever prints is
Dispatch_echo_always(json_value, response, prints) ==
  IF json_value.k # "obj" THEN Outcome("TypeError", "TypeError", response, <<>>)
  ELSE IF "type" \notin DOMAIN json_value.v
       THEN Outcome("ResponseProcessingError", "KeyError", response, <<>>)
  ELSE IF json_value.v["type"] = TYPE_CHUNK
       THEN IF "data" \notin DOMAIN json_value.v
            THEN Outcome("ResponseProcessingError", "KeyError", response, <<>>)
            ELSE LET content == json_value.v["data"]
                     printed == <<PyStr(content)>>
                 IN IF content.k # "str"
                    THEN Outcome("TypeError", "TypeError", response, printed)
                    ELSE Outcome("None", "", 
                           [response EXCEPT !.streaming_response = @ \o content.v],
                           printed)
  ELSE IF json_value.v["type"] = TYPE_IMAGE
       THEN IF "data" \notin DOMAIN json_value.v
            THEN Outcome("ResponseProcessingError", "KeyError", response, <<>>)
            ELSE Outcome("None", "",
                   [response EXCEPT !.images = Append(@, json_value.v["data"])],
                   <<>>)
  ELSE Outcome("None", "", response, <<>>)

\* a mutation of Dispatch: a record of an unknown type is an error
Dispatch_strict(json_value, response, prints) ==
  IF json_value.k # "obj" THEN Outcome("TypeError", "TypeError", response, <<>>)
  ELSE IF "type" \notin DOMAIN json_value.v
       THEN Outcome("ResponseProcessingError", "KeyError", response, <<>>)
  ELSE IF json_value.v["type"] = TYPE_CHUNK
       THEN IF "data" \notin DOMAIN json_value.v
            THEN Outcome("ResponseProcessingError", "KeyError", response, <<>>)
            ELSE LET content == json_value.v["data"]
                     printed == IF prints THEN <<PyStr(content)>> ELSE <<>>
                 IN IF content.k # "str"
                    THEN Outcome("TypeError", "TypeError", response, printed)
                    ELSE Outcome("None", "", 
                           [response EXCEPT !.streaming_response = @ \o content.v],
                           printed)
  ELSE IF json_value.v["type"] = TYPE_IMAGE
       THEN IF "data" \notin DOMAIN json_value.v
            THEN Outcome("ResponseProcessingError", "KeyError", response, <<>>)
            ELSE Outcome("None", "",
                   [response EXCEPT !.images = Append(@, json_value.v["data"])],
                   <<>>)
  ELSE Outcome("ResponseProcessingError", "ValueError", response, <<>>)

\* lines 93-99 and 103-104: the dispatch on json_value['type'].  Indexing a
\* value that is not a dict with a string raises TypeError, which no except
\* clause of process_line catches; so does str += a value that is not a str,
\* after print() has written it
Dispatch(json_value, response, prints) ==
  IF json_value.k # "obj" THEN Outcome("TypeError", "TypeError", response, <<>>)
  ELSE IF "type" \notin DOMAIN json_value.v
       THEN Outcome("ResponseProcessingError", "KeyError", response, <<>>)
  ELSE IF json_value.v["type"] = TYPE_CHUNK
       THEN IF "data" \notin DOMAIN json_value.v
            THEN Outcome("ResponseProcessingError", "KeyError", response, <<>>)
            ELSE LET content == json_value.v["data"]
                     printed == IF prints THEN <<PyStr(content)>> ELSE <<>>
                 IN IF content.k # "str"
                    THEN Outcome("TypeError", "TypeError", response, printed)
                    ELSE Outcome("None", "", 
                           [response EXCEPT !.streaming_response = @ \o content.v],
                           printed)
  ELSE IF json_value.v["type"] = TYPE_IMAGE
       THEN IF "data" \notin DOMAIN json_value.v
            THEN Outcome("ResponseProcessingError", "KeyError", response, <<>>)
            ELSE Outcome("None", "",
                   [response EXCEPT !.images = Append(@, json_value.v["data"])],
                   <<>>)
  ELSE Outcome("None", "", response, <<>>)

(***************************************************************************)
(* The inputs of the model.                                                *)
(***************************************************************************)
ChunkLine(fragment) == "{\"type\":\"top_answer_chunk\",\"data\":\"" \o fragment \o "\"}"
ImageLine(data) == "{\"type\":\"image\",\"data\":" \o data \o "}"
Prefixed(line) == DATA_PREFIX \o line

\* lines the processor folds into the response
GoodLines ==
  { Prefixed(ChunkLine("Hello")),
    ChunkLine(" world"),
    Prefixed(ChunkLine("see data: here")),
    Prefixed(ImageLine("{\"path\":\"p1\",\"images\":[]}")),
    ImageLine("{\"path\":\"data: p2\"}"),
    Prefixed("{\"type\":\"status\",\"data\":\"x\"}"),
    "{\"type\":\"done\"}" }

\* lines on which the processor raises
BadLines ==
  { Prefixed("{\"type\":"),
    "{\"data\":\"Hello\"}",
    Prefixed("{\"type\":\"top_answer_chunk\"}"),
    "{\"type\":\"image\"}",
    "[1]",
    Prefixed("{\"type\":\"top_answer_chunk\",\"data\":5}") }

\* what response.iter_lines may yield: a line, or "" for a blank line
Lines == GoodLines \cup BadLines \cup {""}

\* lines 90-91 for each line of Lines, evaluated once (the @@ makes the
\* table an explicit function)
Decoded == [line \in Lines |-> JsonLoads(StripPrefix(line))] @@ [line \in {} |-> ParseFail]

\* lines 90-91: json.loads(line.replace("data: ", ""))
Decode(line) ==
  IF line \in DOMAIN Decoded THEN Decoded[line] ELSE JsonLoads(StripPrefix(line))

\* a mutation of process_line: a line that does not decode is skipped
process_line_swallow(line, response, prints) ==
  LET decoded == Decode(line) IN
    IF ~decoded.ok
    THEN Outcome("None", "", response, <<>>)
    ELSE Dispatch(decoded.v, response, prints)

\* a mutation of process_line: a line that raises empties the response
process_line_rollback(line, response, prints) ==
  LET decoded == Decode(line)
      r == IF ~decoded.ok
           THEN Outcome("ResponseProcessingError", "JSONDecodeError", response, <<>>)
           ELSE Dispatch(decoded.v, response, prints)
  IN IF r.raised = "None" THEN r
     ELSE Outcome(r.raised, r.cause, NewAPIResponse, r.printed)

\* process_line(line, response, prints): the exception it raises ("None"
\* when it returns), the response as it leaves it, and what it printed
process_line(line, response, prints) ==
  LET decoded == Decode(line) IN
    IF ~decoded.ok
    THEN Outcome("ResponseProcessingError", "JSONDecodeError", response, <<>>)
    ELSE Dispatch(decoded.v, response, prints)

\* the query texts
Queries == {"aqi", "say \"hi\""}

\* the model argument of query(): a string, or a member of ModelType
StrModel(s) == [isstr |-> TRUE, s |-> s]
EnumModel(member) == [isstr |-> FALSE, s |-> member]
ModelArgs == {StrModel("Turbo"), StrModel("fast"), EnumModel("DEFAULT")}

\* the status codes the server answers with
Statuses == {200, 404, 503}

(***************************************************************************)
(* The state.                                                              *)
(***************************************************************************)
VARIABLES
  pc,                \* where the current query() call is
  calls,             \* the number of query() calls started
  model_arg,         \* the model argument of the current call
  model,             \* the ModelType member it resolved to ("" if none)
  prints,            \* the prints argument of the current call
  params,            \* the parameters _build_params returned
  requests_log,      \* the parameters of every requests.get issued so far
  conn,              \* the streaming connection of the current call
  status,            \* its HTTP status
  arrived,           \* the lines iter_lines has yielded in this call
  processed,         \* the lines handed to process_line in this call
  api_response,      \* the APIResponse of _process_response
  stdout,            \* what print() has written during this call
  line_exc,          \* what process_line raised on the last line ("None": nothing)
  result,            \* what the call returned or raised
  uuid_next,         \* the number of uuids generated so far
  default_search_id, \* the default of the dataclass field SearchQuery.search_id
  tasks,             \* the query() calls that run concurrently
  heap               \* the images lists those calls have allocated

vars == <<pc, calls, model_arg, model, prints, params, requests_log, conn, status,
          arrived, processed, api_response, stdout, line_exc, result, uuid_next,
          default_search_id, tasks, heap>>

\* the variables of the calls made one after the other
callvars == <<pc, calls, model_arg, model, prints, params, requests_log, conn, status,
              arrived, processed, api_response, stdout, line_exc, result, uuid_next,
              default_search_id>>

\* the bounds of the concurrent calls: how many there are, and the number
\* of lines each of their streams delivers
MaxTasks == 2
MaxTaskLines == 2

Tasks == 1..MaxTasks

\* a concurrent call that has not started: no APIResponse yet
IdleTask == [pc |-> "idle", arrived |-> <<>>, text |-> "", images |-> 0]

NoResult == [kind |-> "none", type |-> "", cause |-> "", response |-> NewAPIResponse, member |-> ""]
Returned(response) ==
  [kind |-> "value", type |-> "APIResponse", cause |-> "", response |-> response, member |-> ""]
ReturnedMember(member) ==
  [kind |-> "value", type |-> "ModelType", cause |-> "", response |-> NewAPIResponse, member |-> member]
Raised(type, cause) ==
  [kind |-> "exception", type |-> type, cause |-> cause, response |-> NewAPIResponse, member |-> ""]

\* the module has been imported: the class body of SearchQuery has evaluated
\* str(uuid.uuid1()) once, and no query has been made
Init ==
  /\ pc = "idle"
  /\ calls = 0
  /\ model_arg = EnumModel("DEFAULT")
  /\ model = ""
  /\ prints = TRUE
  /\ params = NoParams
  /\ requests_log = <<>>
  /\ conn = "none"
  /\ status = 0
  /\ arrived = <<>>
  /\ processed = <<>>
  /\ api_response = NewAPIResponse
  /\ stdout = <<>>
  /\ line_exc = "None"
  /\ result = NoResult
  /\ uuid_next = 1
  /\ default_search_id = UuidStr(0)
  /\ tasks = [t \in Tasks |-> IdleTask]
  /\ heap = <<>>

(***************************************************************************)
(* GlobeExplorerClient.query, a step at a time.                            *)
(***************************************************************************)
\* a mutation of Query: the parameters are built before the model name is
\* resolved
Query_build_first(q, m, p) ==
  /\ pc \in {"idle", "returned", "raised"}
  /\ calls < MaxCalls
  /\ calls' = calls + 1
  /\ model_arg' = m
  /\ prints' = p
  /\ conn' = "none"
  /\ status' = 0
  /\ arrived' = <<>>
  /\ processed' = <<>>
  /\ api_response' = NewAPIResponse
  /\ stdout' = <<>>
  /\ line_exc' = "None"
  /\ LET r == IF m.isstr THEN from_string(m.s) ELSE [ok |-> TRUE, member |-> m.s] IN
       IF r.ok
       THEN /\ model' = r.member
            /\ params' = build_params(q, r.member, default_search_id, uuid_next)
            /\ uuid_next' = uuid_next + 2
            /\ pc' = "get"
            /\ result' = NoResult
       ELSE /\ model' = ""
            /\ params' = build_params(q, "DEFAULT", default_search_id, uuid_next)
            /\ uuid_next' = uuid_next + 2
            /\ pc' = "raised"
            /\ result' = Raised("ModelNotFoundError", "KeyError")
  /\ UNCHANGED <<requests_log, default_search_id, tasks, heap>>

\* lines 164-167: the call starts, resolves the model and builds the
\* parameters; an unknown model name raises ModelNotFoundError
Query(q, m, p) ==
  /\ pc \in {"idle", "returned", "raised"}
  /\ calls < MaxCalls
  /\ calls' = calls + 1
  /\ model_arg' = m
  /\ prints' = p
  /\ conn' = "none"
  /\ status' = 0
  /\ arrived' = <<>>
  /\ processed' = <<>>
  /\ api_response' = NewAPIResponse
  /\ stdout' = <<>>
  /\ line_exc' = "None"
  /\ LET r == IF m.isstr THEN from_string(m.s) ELSE [ok |-> TRUE, member |-> m.s] IN
       IF r.ok
       THEN /\ model' = r.member
            /\ params' = build_params(q, r.member, default_search_id, uuid_next)
            /\ uuid_next' = uuid_next + 2
            /\ pc' = "get"
            /\ result' = NoResult
       ELSE /\ model' = ""
            /\ params' = NoParams
            /\ uuid_next' = uuid_next
            /\ pc' = "raised"
            /\ result' = Raised("ModelNotFoundError", "KeyError")
  /\ UNCHANGED <<requests_log, default_search_id, tasks, heap>>

\* a mutation of GetFails: the request is issued again after a failure
GetFails_retry ==
  /\ pc = "get"
  /\ requests_log' = Append(requests_log, params)
  /\ pc' = "get"
  /\ result' = NoResult
  /\ UNCHANGED <<calls, model_arg, model, prints, params, conn, status, arrived,
                 processed, api_response, stdout, line_exc, uuid_next, default_search_id, tasks, heap>>

\* lines 170-176 and 181-182: requests.get raises a RequestException (no
\* connection is made)
GetFails ==
  /\ pc = "get"
  /\ requests_log' = Append(requests_log, params)
  /\ pc' = "raised"
  /\ result' = Raised("APIConnectionError", "RequestException")
  /\ UNCHANGED <<calls, model_arg, model, prints, params, conn, status, arrived,
                 processed, api_response, stdout, line_exc, uuid_next, default_search_id, tasks, heap>>

\* raise_for_status() raises HTTPError for a 4xx or 5xx status
IsErrorStatus(st) == st >= 400 /\ st < 600

\* lines 170-179 and 181-182: requests.get returns a response with the
\* stream open; raise_for_status() either raises, or _process_response
\* starts with a new APIResponse (line 219)
GetResponds(st) ==
  /\ pc = "get"
  /\ requests_log' = Append(requests_log, params)
  /\ conn' = "open"
  /\ status' = st
  /\ IF IsErrorStatus(st)
     THEN /\ pc' = "raised"
          /\ result' = Raised("APIConnectionError", "HTTPError")
     ELSE /\ pc' = "streaming"
          /\ result' = NoResult
  /\ api_response' = NewAPIResponse
  /\ UNCHANGED <<calls, model_arg, model, prints, params, arrived, processed,
                 stdout, line_exc, uuid_next, default_search_id, tasks, heap>>

\* a mutation of IterLine: the test `if line:` is missing, so a blank line
\* is handed to process_line too
IterLine_noskip(line) ==
  /\ pc = "streaming"
  /\ Len(arrived) < MaxLines
  /\ arrived' = Append(arrived, line)
  /\ LET r == process_line(line, api_response, prints) IN
       /\ processed' = Append(processed, line)
       /\ api_response' = r.response
       /\ stdout' = stdout \o r.printed
       /\ line_exc' = r.raised
       /\ IF r.raised = "None"
          THEN UNCHANGED <<pc, result>>
          ELSE /\ pc' = "raised"
               /\ result' = Raised("ResponseProcessingError", r.cause)
  /\ UNCHANGED <<calls, model_arg, model, prints, params, requests_log, conn,
                 status, uuid_next, default_search_id, tasks, heap>>

\* a mutation of IterLine: the exception of a line is caught inside the
\* loop, which goes on with the next line
IterLine_continue(line) ==
  /\ pc = "streaming"
  /\ Len(arrived) < MaxLines
  /\ arrived' = Append(arrived, line)
  /\ IF line # ""
     THEN LET r == process_line(line, api_response, prints) IN
            /\ processed' = Append(processed, line)
            /\ api_response' = r.response
            /\ stdout' = stdout \o r.printed
            /\ line_exc' = r.raised
            /\ UNCHANGED <<pc, result>>
     ELSE UNCHANGED <<processed, api_response, stdout, line_exc, pc, result>>
  /\ UNCHANGED <<calls, model_arg, model, prints, params, requests_log, conn,
                 status, uuid_next, default_search_id, tasks, heap>>

\* lines 222-224 and 227-228: iter_lines yields a line; a non-blank line is
\* handed to process_line, and whatever process_line raises is raised again
\* as ResponseProcessingError
IterLine(line) ==
  /\ pc = "streaming"
  /\ Len(arrived) < MaxLines
  /\ arrived' = Append(arrived, line)
  /\ IF line # ""
     THEN LET r == process_line(line, api_response, prints) IN
            /\ processed' = Append(processed, line)
            /\ api_response' = r.response
            /\ stdout' = stdout \o r.printed
            /\ line_exc' = r.raised
            /\ IF r.raised = "None"
               THEN UNCHANGED <<pc, result>>
               ELSE /\ pc' = "raised"
                    /\ result' = Raised("ResponseProcessingError", r.cause)
     ELSE UNCHANGED <<processed, api_response, stdout, line_exc, pc, result>>
  /\ UNCHANGED <<calls, model_arg, model, prints, params, requests_log, conn,
                 status, uuid_next, default_search_id, tasks, heap>>

\* lines 222 and 225: the stream ends and the response is returned; the
\* body has been read to its end, which gives the connection back
IterEnd ==
  /\ pc = "streaming"
  /\ pc' = "returned"
  /\ result' = Returned(api_response)
  /\ conn' = "released"
  /\ UNCHANGED <<calls, model_arg, model, prints, params, requests_log, status,
                 arrived, processed, api_response, stdout, line_exc, uuid_next,
                 default_search_id, tasks, heap>>

\* lines 222 and 227-228: iter_lines raises a RequestException while the
\* stream is read (the transport closes the connection it failed on); the
\* except Exception clause raises ResponseProcessingError, which the
\* except RequestException clause of query does not match
IterFails ==
  /\ pc = "streaming"
  /\ pc' = "raised"
  /\ result' = Raised("ResponseProcessingError", "RequestException")
  /\ conn' = "released"
  /\ UNCHANGED <<calls, model_arg, model, prints, params, requests_log, status,
                 arrived, processed, api_response, stdout, line_exc, uuid_next,
                 default_search_id, tasks, heap>>

\* the first call of query() in the process
FirstQuery(q, m, p) == calls = 0 /\ Query(q, m, p)

\* one call of query(), over every stream of up to MaxLines lines
Next ==
  \/ \E q \in Queries, m \in ModelArgs, p \in BOOLEAN : FirstQuery(q, m, p)
  \/ GetFails
  \/ \E st \in Statuses : GetResponds(st)
  \/ \E line \in Lines : IterLine(line)
  \/ IterEnd
  \/ IterFails

Spec == Init /\ [][Next]_vars

\* the lines of the streams when several calls are made
CallLines == {Prefixed(ChunkLine("Hello")), "{\"type\":\"image\"}"}

\* up to MaxCalls calls of query() one after the other in one process
NextCalls ==
  \/ \E q \in Queries, m \in ModelArgs, p \in BOOLEAN : Query(q, m, p)
  \/ GetFails
  \/ \E st \in Statuses : GetResponds(st)
  \/ \E line \in CallLines : IterLine(line)
  \/ IterEnd
  \/ IterFails

SpecCalls == Init /\ [][NextCalls]_vars

(***************************************************************************)
(* Concurrent calls of query().  An APIResponse is an object with its text *)
(* and a reference to its images list; the lists live in heap, so that two *)
(* responses holding the same list would see each other's images.          *)
(***************************************************************************)
\* a mutation of post_init_images: the images list is one shared default
post_init_images_shared(h) == 1

\* APIResponse.__post_init__ (lines 71-74): images is None, so self.images
\* is bound to a new list; the reference of that list in a heap h
post_init_images(h) == Len(h) + 1

\* the lines of the streams of the concurrent calls
TaskLines ==
  { Prefixed(ChunkLine("Hello")),
    Prefixed(ImageLine("{\"path\":\"p1\",\"images\":[]}")),
    "{\"type\":\"image\"}" }

\* the APIResponse of task t as a value: its text and the contents of its list
TaskResponse(t) ==
  [streaming_response |-> tasks[t].text, images |-> heap[tasks[t].images], error |-> "None"]

\* lines 164-179 and 219 of a call whose model resolves and whose request is
\* answered with a success status: _process_response creates its APIResponse
TaskStart(t) ==
  /\ tasks[t].pc = "idle"
  /\ LET ref == post_init_images(heap) IN
       /\ heap' = IF ref > Len(heap) THEN Append(heap, <<>>) ELSE heap
       /\ tasks' = [tasks EXCEPT ![t] = [pc |-> "streaming", arrived |-> <<>>,
                                         text |-> "", images |-> ref]]
  /\ UNCHANGED callvars

\* lines 222-224 and 227-228 in task t (prints=False): the line is folded
\* into the response of the task
TaskLine(t, line) ==
  /\ tasks[t].pc = "streaming"
  /\ Len(tasks[t].arrived) < MaxTaskLines
  /\ IF line # ""
     THEN LET r == process_line(line, TaskResponse(t), FALSE) IN
            /\ heap' = [heap EXCEPT ![tasks[t].images] = r.response.images]
            /\ tasks' = [tasks EXCEPT ![t].arrived = Append(@, line),
                                      ![t].text = r.response.streaming_response,
                                      ![t].pc = IF r.raised = "None" THEN "streaming" ELSE "raised"]
     ELSE /\ heap' = heap
          /\ tasks' = [tasks EXCEPT ![t].arrived = Append(@, line)]
  /\ UNCHANGED callvars

\* lines 222 and 225 in task t: the stream ends and the APIResponse object
\* is returned
TaskEnd(t) ==
  /\ tasks[t].pc = "streaming"
  /\ tasks' = [tasks EXCEPT ![t].pc = "returned"]
  /\ UNCHANGED <<heap, callvars>>

NextTasks ==
  \/ \E t \in Tasks : TaskStart(t)
  \/ \E t \in Tasks, line \in TaskLines : TaskLine(t, line)
  \/ \E t \in Tasks : TaskEnd(t)

SpecTasks == Init /\ [][NextTasks]_vars

(***************************************************************************)
(* ModelType.from_string on its own, over names in every letter case.      *)
(***************************************************************************)
RECURSIVE ApplyCase(_, _, _)
\* s with the letters at the positions in upper in upper case
ApplyCase(s, i, upper) ==
  IF i > Len(s) THEN ""
  ELSE (IF i \in upper THEN UpperCh(Ch(s, i)) ELSE Ch(s, i)) \o ApplyCase(s, i + 1, upper)

CaseVariants(s) == { ApplyCase(s, 1, upper) : upper \in SUBSET (1..Len(s)) }

ModelNameInputs ==
  CaseVariants("default") \cup CaseVariants("turbo") \cup CaseVariants("fast")
    \cup CaseVariants("turb") \cup {"", " turbo", "turbo ", "defaults", "default_", "turbo2", "modeltype"}

\* ModelType.from_string(name), called directly
FromString(name) ==
  /\ model_arg' = StrModel(name)
  /\ LET r == from_string(name) IN
       IF r.ok
       THEN /\ model' = r.member
            /\ pc' = "returned"
            /\ result' = ReturnedMember(r.member)
       ELSE /\ model' = ""
            /\ pc' = "raised"
            /\ result' = Raised("ModelNotFoundError", "KeyError")
  /\ UNCHANGED <<calls, prints, params, requests_log, conn, status, arrived,
                 processed, api_response, stdout, line_exc, uuid_next, default_search_id, tasks, heap>>

NextModel == \E name \in ModelNameInputs : FromString(name)

SpecModel == Init /\ [][NextModel]_vars

(***************************************************************************)
(* What a stream carries, read off its lines without the processor: the    *)
(* record of a line is the JSON value after the prefix at its start.       *)
(***************************************************************************)
Records == [line \in Lines |-> JsonLoads(StripLeading(line, DATA_PREFIX))] @@ [line \in {} |-> ParseFail]

RecordOf(line) ==
  IF line \in DOMAIN Records THEN Records[line] ELSE JsonLoads(StripLeading(line, DATA_PREFIX))

IsRecord(decoded, type) ==
  /\ decoded.ok
  /\ decoded.v.k = "obj"
  /\ "type" \in DOMAIN decoded.v.v
  /\ decoded.v.v["type"] = type
  /\ "data" \in DOMAIN decoded.v.v

\* a top_answer_chunk line carrying a string fragment
IsChunkLine(line) ==
  /\ line # ""
  /\ IsRecord(RecordOf(line), TYPE_CHUNK)
  /\ RecordOf(line).v.v["data"].k = "str"

IsImageLine(line) == line # "" /\ IsRecord(RecordOf(line), TYPE_IMAGE)

DataOf(line) == RecordOf(line).v.v["data"]

RECURSIVE FragmentsOf(_)
\* f1 + ... + fN of the chunk lines of a stream, in arrival order
FragmentsOf(lines) ==
  IF lines = <<>> THEN ""
  ELSE (IF IsChunkLine(Head(lines)) THEN DataOf(Head(lines)).v ELSE "") \o FragmentsOf(Tail(lines))

RECURSIVE ImagesOf(_)
\* the data objects of the image lines of a stream, in arrival order
ImagesOf(lines) ==
  IF lines = <<>> THEN <<>>
  ELSE (IF IsImageLine(Head(lines)) THEN <<DataOf(Head(lines))>> ELSE <<>>) \o ImagesOf(Tail(lines))

\* the line of an IterLine step
IsLineStep == pc = "streaming" /\ Len(arrived') = Len(arrived) + 1
StepLine == arrived'[Len(arrived')]

(***************************************************************************)
(* The claims.                                                             *)
(***************************************************************************)

\* C1: a stream made only of top_answer_chunk lines with string fragments
\* f1..fN (prefixed or not, whatever the fragments contain) makes query
\* return a response whose streaming_response is f1 + ... + fN.
C1_ChunksConcatenate ==
  (pc = "returned" /\ \A i \in 1..Len(arrived) : IsChunkLine(arrived[i]))
    => result.response.streaming_response = FragmentsOf(arrived)

\* C2: a stream that interleaves top_answer_chunk and image lines returns
\* the data objects of the image lines verbatim in arrival order and the
\* concatenation of the chunk fragments in arrival order.
C2_ChannelsDisjoint ==
  (pc = "returned"
     /\ \A i \in 1..Len(arrived) : IsChunkLine(arrived[i]) \/ IsImageLine(arrived[i]))
    => /\ result.response.images = ImagesOf(arrived)
       /\ result.response.streaming_response = FragmentsOf(arrived)

\* C3: once a non-blank line that is not valid JSON (as handed to the
\* decoder, with the prefix stripped) has arrived, the query has failed with
\* ResponseProcessingError and the caller has no APIResponse, whatever the
\* position of the line and whatever was accumulated before it.
C3_InvalidJsonFails ==
  (\E i \in 1..Len(arrived) :
      arrived[i] # "" /\ ~Decode(arrived[i]).ok)
    => /\ pc = "raised"
       /\ result.kind = "exception"
       /\ result.type = "ResponseProcessingError"
       /\ result.cause = "JSONDecodeError"

\* C3 happens: the third line is not valid JSON, text and an image were
\* accumulated before it, and the query raised.
C3_Witness ==
  /\ pc = "raised"
  /\ Len(arrived) = 3
  /\ arrived[3] = Prefixed("{\"type\":")
  /\ api_response.streaming_response = "Hello"
  /\ Len(api_response.images) = 1
  /\ result.type = "ResponseProcessingError"

\* a decoded line that lacks a required key
LacksKey(decoded) ==
  /\ decoded.ok
  /\ decoded.v.k = "obj"
  /\ \/ "type" \notin DOMAIN decoded.v.v
     \/ /\ decoded.v.v["type"] \in {TYPE_CHUNK, TYPE_IMAGE}
        /\ "data" \notin DOMAIN decoded.v.v

\* C4: a line that decodes to an object without `type`, or to a
\* top_answer_chunk or image record without `data`, makes process_line
\* raise ResponseProcessingError for the missing key, and the query fails
\* with ResponseProcessingError.
C4_MissingKeyFails ==
  (\E i \in 1..Len(arrived) :
      arrived[i] # "" /\ LacksKey(Decode(arrived[i])))
    => /\ line_exc = "ResponseProcessingError"
       /\ pc = "raised"
       /\ result.kind = "exception"
       /\ result.type = "ResponseProcessingError"
       /\ result.cause = "KeyError"

\* C4 happens: an image record without data arrives after a good line.
C4_Witness ==
  /\ pc = "raised"
  /\ Len(arrived) = 2
  /\ arrived[2] = "{\"type\":\"image\"}"
  /\ line_exc = "ResponseProcessingError"
  /\ result.cause = "KeyError"

\* a and b are the same string up to the case of their letters
SameUpToCase(a, b) ==
  /\ Len(a) = Len(b)
  /\ \A i \in 1..Len(a) : LowerCh(Ch(a, i)) = LowerCh(Ch(b, i))

\* C5: from_string maps a string that equals a variant name up to letter
\* case to that variant, and raises ModelNotFoundError for a string that
\* matches no variant name; it never falls back to a default.
C5_FromString ==
  pc # "idle" =>
    /\ \A member \in ModelNames :
         SameUpToCase(model_arg.s, member) => result = ReturnedMember(member)
    /\ (\A member \in ModelNames : ~SameUpToCase(model_arg.s, member))
         => result = Raised("ModelNotFoundError", "KeyError")

\* C5 happens: a name in mixed case resolved to its variant.
C5_Witness ==
  /\ pc = "returned"
  /\ model_arg = StrModel("tUrBo")
  /\ result = ReturnedMember("TURBO")

\* C6: every non-success status and every RequestException of a query, on
\* opening the connection or while the stream is read, reaches the caller
\* as APIConnectionError.
C6_TransportFailureIsConnectionError ==
  (result.kind = "exception" /\ result.cause \in {"RequestException", "HTTPError"})
    => result.type = "APIConnectionError"

\* C7: when query has returned or raised after opening the streaming
\* connection, the connection has been closed.
C7_ConnectionReleased ==
  (pc \in {"returned", "raised"} /\ conn # "none") => conn = "released"

\* the search_id serialized inside queryData
QuerySearchId(queryData) == JsonLoads(queryData).v.v[1].v["search_id"].v

\* C8: any two requests of the process differ in the search_id inside
\* queryData, in the top-level search_id and in userid_local.
C8_FreshIdentifiers ==
  \A i, j \in 1..Len(requests_log) :
    i # j =>
      /\ QuerySearchId(requests_log[i].queryData) # QuerySearchId(requests_log[j].queryData)
      /\ requests_log[i].search_id # requests_log[j].search_id
      /\ requests_log[i].userid_local # requests_log[j].userid_local

\* a line the processor decodes to a top_answer_chunk record with data
IsDecodedChunk(line) == line # "" /\ IsRecord(Decode(line), TYPE_CHUNK)

RECURSIVE EchoOf(_)
\* the writes of the chunk lines of a stream, one per line, in arrival order
EchoOf(lines) ==
  IF lines = <<>> THEN <<>>
  ELSE (IF IsDecodedChunk(Head(lines))
        THEN <<PyStr(Decode(Head(lines)).v.v["data"])>>
        ELSE <<>>) \o EchoOf(Tail(lines))

C10_OnlyLeadingPrefixStripped ==
  [][IsLineStep =>
       /\ IsChunkLine(StepLine) =>
            api_response'.streaming_response =
              api_response.streaming_response \o DataOf(StepLine).v
       /\ IsImageLine(StepLine) =>
            api_response'.images = Append(api_response.images, DataOf(StepLine))]_vars

\* C11: for every input line process_line either returns or raises
\* ResponseProcessingError; no exception of another type escapes it.
C11_OnlyProcessingErrorEscapes ==
  line_exc \in {"None", "ResponseProcessingError"}

NonBlank(line) == line # ""

\* C12: a blank line is skipped: it is not handed to the processor, it
\* leaves the text, the images and the side channel as they are and raises
\* nothing, so the lines processed are the stream without its blank lines.
C12_BlankLineSkipped ==
  [][(IsLineStep /\ StepLine = "") =>
       /\ processed' = processed
       /\ processed' = SelectSeq(arrived', NonBlank)
       /\ api_response' = api_response
       /\ stdout' = stdout
       /\ line_exc' = line_exc
       /\ pc' = pc
       /\ result' = result]_vars

\* C12 happens: a blank line arrived between two chunks and the query
\* returned the text of the two chunks.
C12_Witness ==
  /\ pc = "returned"
  /\ arrived = <<Prefixed(ChunkLine("Hello")), "", ChunkLine(" world")>>
  /\ processed = <<Prefixed(ChunkLine("Hello")), ChunkLine(" world")>>
  /\ result.response.streaming_response = "Hello world"

\* a decoded line that is an object whose type is not a recognized one
IsUnknownType(decoded) ==
  /\ decoded.ok
  /\ decoded.v.k = "obj"
  /\ "type" \in DOMAIN decoded.v.v
  /\ decoded.v.v["type"] \notin {TYPE_CHUNK, TYPE_IMAGE}

\* C13: a line that decodes to an object whose type is neither
\* top_answer_chunk nor image is ignored: process_line returns, the text,
\* the images and the side channel are unchanged, and the stream goes on.
C13_UnknownTypeIgnored ==
  [][(IsLineStep /\ StepLine # "" /\ IsUnknownType(Decode(StepLine))) =>
       /\ line_exc' = "None"
       /\ api_response' = api_response
       /\ stdout' = stdout
       /\ pc' = "streaming"
       /\ result' = result]_vars

\* C13 happens: a record of an unknown type arrived between two chunks,
\* and the chunk after it was still processed.
C13_Witness ==
  /\ pc = "returned"
  /\ prints
  /\ arrived = <<Prefixed(ChunkLine("Hello")), "{\"type\":\"done\"}", ChunkLine(" world")>>
  /\ Len(processed) = 3
  /\ result.response.streaming_response = "Hello world"
  /\ stdout = <<"Hello", " world">>

\* a model name that matches no member of ModelType
Unresolvable(m) ==
  m.isstr /\ \A member \in ModelNames : ~SameUpToCase(m.s, member)

\* C14: a call whose model string matches no variant raises
\* ModelNotFoundError before any network activity: it builds no parameters,
\* generates no identifier, issues no request, opens no connection and
\* processes no line.
C14_ModelNotFoundBeforeNetwork ==
  [][(calls' > 0 /\ Unresolvable(model_arg')) =>
       /\ pc' = "raised"
       /\ result' = Raised("ModelNotFoundError", "KeyError")
       /\ params' = NoParams
       /\ uuid_next' = uuid_next
       /\ requests_log' = requests_log
       /\ conn' = "none"
       /\ arrived' = <<>>
       /\ processed' = <<>>]_vars

\* C14 happens: after a call that sent its request, a call with an unknown
\* model name raised and the request log still holds one request.
C14_Witness ==
  /\ calls = 2
  /\ model_arg = StrModel("fast")
  /\ pc = "raised"
  /\ result.type = "ModelNotFoundError"
  /\ Len(requests_log) = 1

\* C16: the first line on which the processor fails stops the stream:
\* the query raises at that line, and afterwards no line is read or handed
\* to process_line, nothing is appended and nothing is written.
C16_FirstFailureStopsStream ==
  [][/\ line_exc' # "None" => pc' = "raised"
     /\ line_exc # "None" =>
          /\ arrived' = arrived
          /\ processed' = processed
          /\ api_response' = api_response
          /\ stdout' = stdout]_vars

\* C16 happens: the second line failed after a chunk had been accumulated
\* and echoed, and the stream stopped there.
C16_Witness ==
  /\ pc = "raised"
  /\ prints
  /\ line_exc = "ResponseProcessingError"
  /\ arrived = <<Prefixed(ChunkLine("Hello")), "{\"data\":\"Hello\"}">>
  /\ processed = arrived
  /\ api_response.streaming_response = "Hello"
  /\ stdout = <<"Hello">>

TypedErrors == {"ModelNotFoundError", "APIConnectionError", "ResponseProcessingError"}

\* C17: a call issues at most one request and never retries: a request is
\* issued only from the point the call reaches after building its
\* parameters, which it then leaves, and a call that fails has raised one
\* of the typed errors.
C17_OneRequestNoRetry ==
  [][/\ requests_log' # requests_log =>
          /\ pc = "get"
          /\ pc' # "get"
          /\ requests_log' = Append(requests_log, params)
     /\ pc' = "raised" =>
          /\ result'.kind = "exception"
          /\ result'.type \in TypedErrors]_vars

\* C17 happens: two calls each issued one request, and the second failed
\* on a line after its connection was opened.
C17_Witness ==
  /\ calls = 2
  /\ Len(requests_log) = 2
  /\ pc = "raised"
  /\ conn = "open"
  /\ result.type = "ResponseProcessingError"
  /\ Len(arrived) = 2

RECURSIVE JoinAll(_)
\* the concatenation of a sequence of strings
JoinAll(strings) ==
  IF strings = <<>> THEN "" ELSE Head(strings) \o JoinAll(Tail(strings))

\* C18: with prints enabled, whenever process_line has finished a line the
\* concatenation of everything written to the side channel equals the text
\* buffer.
C18_EchoEqualsText ==
  prints => JoinAll(stdout) = api_response.streaming_response

\* C19: a line on which process_line raises leaves the text buffer and the
\* image sequence exactly as they were before the line.
C19_RaisingLineKeepsAccumulator ==
  [][(IsLineStep /\ line_exc' # "None") => api_response' = api_response]_vars

\* C19 happens: after a chunk and an image, a chunk whose data is not a
\* string raised, and the text and the image are still there.
C19_Witness ==
  /\ pc = "raised"
  /\ line_exc = "TypeError"
  /\ Len(arrived) = 3
  /\ arrived[3] = Prefixed("{\"type\":\"top_answer_chunk\",\"data\":5}")
  /\ api_response.streaming_response = "Hello"
  /\ Len(api_response.images) = 1

RECURSIVE FoldLines(_, _)
\* the response _process_response builds from a stream when it runs alone:
\* the non-blank lines folded in order, up to the first one that raises
FoldLines(lines, response) ==
  IF lines = <<>> THEN response
  ELSE IF Head(lines) = "" THEN FoldLines(Tail(lines), response)
  ELSE LET r == process_line(Head(lines), response, FALSE) IN
         IF r.raised = "None" THEN FoldLines(Tail(lines), r.response) ELSE r.response

\* C15: concurrent queries, their lines interleaved in any order, each have
\* an images list of their own, and the response of each equals the
\* response of the same stream processed alone.
C15_ConcurrentQueriesIndependent ==
  \A t \in Tasks :
    tasks[t].pc # "idle" =>
      /\ \A u \in Tasks \ {t} : tasks[u].pc # "idle" => tasks[u].images # tasks[t].images
      /\ TaskResponse(t) = FoldLines(tasks[t].arrived, NewAPIResponse)

\* C15 happens: two concurrent queries both returned, each with a chunk
\* and an image in its own order.
C15_Witness ==
  /\ tasks[1].pc = "returned"
  /\ tasks[2].pc = "returned"
  /\ tasks[1].arrived = <<Prefixed(ChunkLine("Hello")), Prefixed(ImageLine("{\"path\":\"p1\",\"images\":[]}"))>>
  /\ tasks[2].arrived = <<Prefixed(ImageLine("{\"path\":\"p1\",\"images\":[]}")), Prefixed(ChunkLine("Hello"))>>
  /\ Len(TaskResponse(1).images) = 1
  /\ Len(TaskResponse(2).images) = 1

====
